---- MODULE Spec2Model ----
(***************************************************************************)
(* Model of the Rummikub solver console: the rule set and its set          *)
(* enumeration (ruleset.py), the integer program of the solver             *)
(* (solver.py), the game state (gamestate.py) and the console commands     *)
(* that drive them (console.py).                                           *)
(*                                                                         *)
(* Python lists, tuples and numpy vectors are TLA+ sequences (index i of   *)
(* the code is index i + 1 here), Counters are bags.  Indices into         *)
(* RuleSet.sets stay 0-based as in the code.                               *)
(***************************************************************************)
EXTENDS Bags, FiniteSets, Integers, Sequences, TLC

\* Largest number of tiles the explored games hold on the rack / the table.
MaxRack == 3
MaxTable == 4

\* Largest colours, jokers and minimum set length of the configurations a
\* rule set is constructed from.
MaxColours == 3
MaxJokers == 2
MaxMinLen == 3
MaxCount == 2
MaxGames == 3

\* Largest number of tiles a method of GameState is called with, and
\* largest number of tiles on the rack / the table of the state it is
\* called on.
MaxMove == 3
MaxHand == 2

\* The rule sets explored: a small legal configuration, with and without
\* a joker.
RuleSets ==
    { [numbers |-> 3, repeats |-> 1, colours |-> 2, jokers |-> j,
       min_len |-> 2, min_initial_value |-> 5] : j \in {0, 1} }

\* A rule set with sets of three tiles and two jokers, explored on the
\* tiles of one opening meld.
MeldRuleSet ==
    [numbers |-> 4, repeats |-> 1, colours |-> 3, jokers |-> 2,
     min_len |-> 3, min_initial_value |-> 12]

AllRuleSets == RuleSets \cup {MeldRuleSet}

\* Python's None, for RuleSet.joker of a rule set without jokers.
None == 0

----------------------------------------------------------------------------
\* Generic helpers: Python built-ins used by the code.

Min(a, b) == IF a < b THEN a ELSE b
Max(a, b) == IF a > b THEN a ELSE b

\* sum(s), adding up the non-zero entries
RECURSIVE SumOver(_, _)
SumOver(s, I) ==
    IF I = {} THEN 0
    ELSE LET i == CHOOSE i \in I : TRUE IN s[i] + SumOver(s, I \ {i})

Sum(s) == SumOver(s, {i \in DOMAIN s : s[i] # 0})

\* a @ b for two vectors
Dot(a, b) == SumOver([i \in DOMAIN a |-> a[i] * b[i]],
                     {i \in DOMAIN a : a[i] # 0 /\ b[i] # 0})

\* range(a, b) -> <<a, ..., b - 1>>
Range(a, b) == [i \in 1..Max(b - a, 0) |-> a + i - 1]

\* [x] * n
Repeat(x, n) == [i \in 1..n |-> x]

\* The i-th smallest element of a finite set of integers.
Nth(I, i) == CHOOSE x \in I : Cardinality({y \in I : y < x}) = i - 1

\* itertools.combinations(s, k): the length-k subsequences of s, as a set
\* (the code collects them in a Python set).
combinations(s, k) ==
    { [i \in 1..k |-> s[Nth(I, i)]] :
        I \in {J \in SUBSET (1..Len(s)) : Cardinality(J) = k} }

\* Python's tuple ordering: lexicographic, a proper prefix sorts first.
TupleLess(a, b) ==
    \E k \in 1..(Min(Len(a), Len(b)) + 1) :
        /\ \A i \in 1..(k - 1) : a[i] = b[i]
        /\ IF k > Len(a) THEN k <= Len(b)
           ELSE k <= Len(b) /\ a[k] < b[k]

\* the tuples of a set in descending order
SortedTuples_descending(S) ==
    LET ranked == { <<Cardinality({u \in S : TupleLess(s, u)}) + 1, s>> : s \in S }
    IN [i \in 1..Cardinality(S) |-> (CHOOSE p \in ranked : p[1] = i)[2]]

\* sorted(S) for a set of tuples: each tuple goes to the place given by
\* the number of tuples that sort before it.
SortedTuples(S) ==
    LET ranked == { <<Cardinality({u \in S : TupleLess(u, s)}) + 1, s>> : s \in S }
    IN [i \in 1..Cardinality(S) |-> (CHOOSE p \in ranked : p[1] = i)[2]]

\* sorted(s) for a sequence of integers
RECURSIVE InsertSorted(_, _)
InsertSorted(s, x) ==
    IF s = <<>> THEN <<x>>
    ELSE IF x <= Head(s) THEN <<x>> \o s
    ELSE <<Head(s)>> \o InsertSorted(Tail(s), x)

RECURSIVE sorted(_)
sorted(s) == IF s = <<>> THEN <<>> ELSE InsertSorted(sorted(Tail(s)), Head(s))

\* Counter(seq)
RECURSIVE Counter(_)
Counter(s) ==
    IF s = <<>> THEN EmptyBag ELSE Counter(Tail(s)) (+) SetToBag({Head(s)})

\* counter[t] (0 for an absent key)
Count(c, t) == IF t \in DOMAIN c THEN c[t] ELSE 0

\* sorted(counter.elements())
RECURSIVE SortedElements(_)
SortedElements(c) ==
    IF DOMAIN c = {} THEN <<>>
    ELSE LET t == CHOOSE x \in DOMAIN c : \A y \in DOMAIN c : x <= y
         IN Repeat(t, c[t]) \o SortedElements([x \in DOMAIN c \ {t} |-> c[x]])

----------------------------------------------------------------------------
\* RuleSet (ruleset.py)

tile_count(rs) ==
    rs.numbers * rs.colours + (IF rs.jokers # 0 THEN 1 ELSE 0)

joker(rs) == IF rs.jokers # 0 THEN tile_count(rs) ELSE None

tiles(rs) == Range(1, tile_count(rs) + 1)

\* _combine_with_jokers: sets of minimum length are combined with every
\* joker substitution, longer groups with none, longer runs with inner
\* jokers only.
\* longer sets combined with every joker substitution
longer_with_any_joker(rs, s, runs) ==
    combinations(s \o Repeat(joker(rs), rs.jokers), Len(s))

longer(rs, s, runs) ==
    IF runs
    THEN { <<s[1]>> \o c \o <<s[Len(s)]>> :
             c \in combinations(SubSeq(s, 2, Len(s) - 1)
                                    \o Repeat(joker(rs), rs.jokers),
                                Len(s) - 2) }
    ELSE {s}

_combine_with_jokers(rs, sets, runs) ==
    IF joker(rs) = None THEN sets
    ELSE UNION { IF Len(s) = rs.min_len
                 THEN combinations(s \o Repeat(joker(rs), rs.jokers), Len(s))
                 ELSE longer(rs, s, runs) : s \in sets }

\* runs that pass from one colour into the next
_runs_across_colours(rs) ==
    LET series ==
          { Range(rs.numbers * c + num, rs.numbers * c + num + length) :
              <<c, length, num>> \in
                 { <<c, length, num>> \in
                      (0..(rs.colours - 1))
                        \X (rs.min_len..(2 * rs.min_len - 1))
                        \X (1..rs.numbers) :
                      rs.numbers * c + num + length - 1
                          <= rs.numbers * rs.colours } }
    IN _combine_with_jokers(rs, series, TRUE)

_runs(rs) ==
    LET series ==
          { Range(rs.numbers * c + num, rs.numbers * c + num + length) :
              <<c, length, num>> \in
                 { <<c, length, num>> \in
                      (0..(rs.colours - 1))
                        \X (rs.min_len..(2 * rs.min_len - 1))
                        \X (1..rs.numbers) :
                      num <= rs.numbers - length + 1 } }
    IN _combine_with_jokers(rs, series, TRUE)

_groups(rs) ==
    LET fullgroup(num) == [k \in 1..rs.colours |-> num + rs.numbers * (k - 1)]
        groups ==
          UNION { combinations(fullgroup(num), len) :
                    <<num, len>> \in (1..rs.numbers) \X (rs.min_len..rs.colours) }
    IN _combine_with_jokers(rs, groups, FALSE)

\* RuleSet.sets, per rule set (a cached property of the rule set)
sets == [rs \in AllRuleSets |-> SortedTuples(_runs(rs) \cup _groups(rs))]

\* RuleSet.sets of a rule set under construction
new_sets(rs) == SortedTuples(_runs(rs) \cup _groups(rs))

\* Raised by next() on an exhausted iterator (a set without a numbered tile).
StopIteration == -1

\* RuleSet.setvalues: the run-length value matrix, row l indexed by the
\* lowest number m in 0..numbers.
\* The run-length value matrix of runs that always start at their lowest
\* numbered tile
RECURSIVE rlvalues_uncapped(_, _)
rlvalues_uncapped(rs, l) ==
    IF l = 0 THEN [m \in 0..rs.numbers |-> 0]
    ELSE [m \in 0..rs.numbers |-> rlvalues_uncapped(rs, l - 1)[m] + (l - 1) + m]

\* The run-length value matrix with every added number capped at numbers
RECURSIVE rlvalues_capped_at_numbers(_, _)
rlvalues_capped_at_numbers(rs, l) ==
    IF l = 0 THEN [m \in 0..rs.numbers |-> 0]
    ELSE [m \in 0..rs.numbers |->
            rlvalues_capped_at_numbers(rs, l - 1)[m]
                + Min((l - 1) + m, rs.numbers)]

RECURSIVE rlvalues(_, _)
rlvalues(rs, l) ==
    IF l = 0 THEN [m \in 0..rs.numbers |-> 0]
    ELSE LET i == l - 1
             prev == rlvalues(rs, i)
             \* chain(range(i, n + 1), repeat(n - i)), zipped with row i
             tile(m) == IF i + m <= rs.numbers THEN i + m ELSE rs.numbers - i
         IN [m \in 0..rs.numbers |-> prev[m] + tile(m)]

_calc(rs, s) ==
    LET nums == [k \in 1..Len(s) |-> ((s[k] - 1) % rs.numbers) + 1]
        idx == {k \in 1..Len(s) : s[k] # joker(rs)}
    IN IF idx = {} THEN StopIteration
       ELSE LET n0 == nums[Nth(idx, 1)]
                run == rlvalues(rs, Len(s))[n0]
            IN IF Cardinality(idx) >= 2
               THEN (IF n0 = nums[Nth(idx, 2)] THEN Len(s) * n0 ELSE run)
               ELSE Max(Len(s) * n0, run)

setvalues ==
    [rs \in AllRuleSets |-> [k \in 1..Len(sets[rs]) |-> _calc(rs, sets[rs][k])]]

----------------------------------------------------------------------------
\* RummikubSolver (solver.py)

Modes == {"initial", "tiles", "value"}

\* Set membership matrix: a row per tile, a column per set.
smatrix ==
    [rs \in AllRuleSets |->
        [t \in 1..tile_count(rs) |->
            [k \in 1..Len(sets[rs]) |->
                Cardinality({i \in 1..Len(sets[rs][k]) : sets[rs][k][i] = t})]]]

tilevalue(rs) ==
    [t \in 1..tile_count(rs) |->
        IF t = joker(rs) THEN 0 ELSE ((t - 1) % rs.numbers) + 1]

\* The tiles variable rows that are numbered tiles (tiles[:-1] with jokers).
numbertiles(rs) == 1..(rs.numbers * rs.colours)

\* The constraints shared by the three problems.
constraints(rs, x, y, table, rack) ==
    /\ \A t \in 1..tile_count(rs) :
          Dot(x, smatrix[rs][t]) = table[t] + y[t]
    /\ \A t \in 1..tile_count(rs) : y[t] <= rack[t]
    /\ \A k \in 1..Len(x) : x[k] >= 0 /\ x[k] <= rs.repeats
    /\ \A t \in numbertiles(rs) : y[t] >= 0 /\ y[t] <= rs.repeats
    /\ rs.jokers # 0 =>
          y[tile_count(rs)] >= 0 /\ y[tile_count(rs)] <= rs.jokers

\* the initial problem without its minimum-value constraint
initial_constraints_without_value(rs, x, y, table, rack) ==
    constraints(rs, x, y, table, rack)

initial_constraints(rs, x, y, table, rack) ==
    /\ constraints(rs, x, y, table, rack)
    /\ Dot(x, setvalues[rs]) >= rs.min_initial_value

objective(rs, mode, y) ==
    CASE mode = "tiles" -> Sum(y)
      [] mode = "value" -> Dot(y, tilevalue(rs))
      [] mode = "initial" -> Sum([t \in numbertiles(rs) |-> y[t]])

\* The integer vectors of length n between 0 and ub.
RECURSIVE VectorsUpTo(_, _)
VectorsUpTo(ub, n) ==
    IF n = 0 THEN {<<>>}
    ELSE {Append(v, k) : v \in VectorsUpTo(ub, n - 1), k \in 0..ub[n]}

\* The set-count vectors x >= 0 with smatrix @ x = target.
RECURSIVE Covers(_, _)
Covers(rs, target) ==
    IF \A t \in 1..Len(target) : target[t] = 0
    THEN {[k \in 1..Len(sets[rs]) |-> 0]}
    ELSE LET t == Nth({u \in 1..Len(target) : target[u] > 0}, 1)
             fit == {k \in 1..Len(sets[rs]) :
                        /\ smatrix[rs][t][k] > 0
                        /\ \A u \in 1..Len(target) :
                              smatrix[rs][u][k] <= target[u]}
         IN UNION { { [x EXCEPT ![k] = @ + 1] :
                        x \in Covers(rs, [u \in 1..Len(target) |->
                                            target[u] - smatrix[rs][u][k]]) } :
                    k \in fit }

\* The feasible points <<x, y>> of a problem: the integer points that
\* satisfy its constraints, found by search over the placed tiles y.
Feasible(rs, mode, table, rack) ==
    LET box == [t \in 1..tile_count(rs) |->
                  Min(rack[t], IF t = joker(rs) THEN rs.jokers ELSE rs.repeats)]
        points == UNION { { <<x, y>> :
                              x \in Covers(rs, [t \in 1..Len(y) |-> table[t] + y[t]]) } :
                          y \in VectorsUpTo(box, tile_count(rs)) }
    IN { p \in points :
           IF mode = "initial"
           THEN initial_constraints(rs, p[1], p[2], table, rack)
           ELSE constraints(rs, p[1], p[2], table, rack) }

\* prob.solve stopping at any feasible point
Optimal_any_feasible(rs, mode, table, rack) == Feasible(rs, mode, table, rack)

\* prob.solve: the optimal points; the backend may return any of them.
Optimal(rs, mode, table, rack) ==
    LET F == Feasible(rs, mode, table, rack)
    IN { p \in F : \A q \in F : objective(rs, mode, q[2]) <= objective(rs, mode, p[2]) }

\* np.repeat(idx + base, counts[idx]): index counts to repeated indices.
RECURSIVE repeat_at(_, _, _)
repeat_at(v, idx, base) ==
    IF idx = {} THEN <<>>
    ELSE LET i == Nth(idx, 1)
         IN Repeat(i - 1 + base, v[i]) \o repeat_at(v, idx \ {i}, base)

repeated(v, base) == repeat_at(v, {i \in 1..Len(v) : v[i] # 0}, base)

\* The value of a parameter or variable that has none (None in place of
\* an array).
Unset == <<>>

\* The parameters and variables of a solver just built: no value yet.
NewSolver == [rack |-> Unset, table |-> Unset, tiles |-> Unset, sets |-> Unset]

\* __call__ leaving the table parameter as it is in initial mode, once it
\* has a value
bind_keeping_table(slots, mode, state) ==
    [slots EXCEPT !.rack = state.rack_array,
                  !.table = IF mode = "initial" /\ @ # Unset THEN @
                            ELSE state.table_array]

\* __call__ leaving the rack parameter as it is once it has a value
bind_keeping_rack(slots, mode, state) ==
    [slots EXCEPT !.rack = IF @ = Unset THEN state.rack_array ELSE @,
                  !.table = IF mode = "initial"
                            THEN [t \in 1..Len(state.table_array) |-> 0]
                            ELSE state.table_array]

\* __call__, setting the parameters: both get a value in every mode.
bind(slots, mode, state) ==
    [slots EXCEPT !.rack = state.rack_array,
                  !.table = IF mode = "initial"
                            THEN [t \in 1..Len(state.table_array) |-> 0]
                            ELSE state.table_array]

\* prob.solve on the parameters as they are: the values it may leave in
\* the variables, none for an infeasible problem.
prob_solve(rs, mode, slots) ==
    LET opt == Optimal(rs, mode, slots.table, slots.rack)
    IN IF opt = {} THEN {[infeasible |-> TRUE, sets |-> Unset, tiles |-> Unset]}
       ELSE {[infeasible |-> FALSE, sets |-> p[1], tiles |-> p[2]] : p \in opt}

\* __call__ after prob.solve: an infeasible problem gives the empty
\* solution; otherwise the variables are read, and a variable without a
\* value raises AttributeError.
read_solution(slots, infeasible) ==
    IF infeasible THEN [kind |-> "SolverSolution",
                        sol |-> [tiles |-> <<>>, set_indices |-> <<>>,
                                 seqtype |-> "tuple"]]
    ELSE IF slots.tiles = Unset \/ slots.sets = Unset
    THEN [kind |-> "AttributeError"]
    ELSE [kind |-> "SolverSolution",
          sol |-> [tiles |-> repeated(slots.tiles, 1),
                   set_indices |-> repeated(slots.sets, 0),
                   seqtype |-> "list"]]

\* SolverSolution; seqtype tells the Python type of its two sequences.
SolverSolution(tls, set_indices, seqtype) ==
    [tiles |-> tls, set_indices |-> set_indices, seqtype |-> seqtype]

\* __call__ binding the table parameter to zeros in every mode
Solver_zero_table(rs, mode, state) ==
    LET rack == state.rack_array
        table == [t \in 1..Len(state.table_array) |-> 0]
        opt == Optimal(rs, mode, table, rack)
    IN IF opt = {} THEN {SolverSolution(<<>>, <<>>, "tuple")}
       ELSE { SolverSolution(repeated(p[2], 1), repeated(p[1], 0), "list") :
                p \in opt }

\* RummikubSolver.__call__: the solutions a call may return.
Solver(rs, mode, state) ==
    LET rack == state.rack_array
        table == IF mode = "initial"
                 THEN [t \in 1..Len(state.table_array) |-> 0]
                 ELSE state.table_array
        opt == Optimal(rs, mode, table, rack)
    IN IF opt = {} THEN {SolverSolution(<<>>, <<>>, "tuple")}
       ELSE { SolverSolution(repeated(p[2], 1), repeated(p[1], 0), "list") :
                p \in opt }

----------------------------------------------------------------------------
\* GameState (gamestate.py)

\* Arithmetic of the np.int8 count arrays.
Int8(v) == ((v + 128) % 256) - 128

\* np.add.at(arr, np.array(idxs) - 1, d): unbuffered, one step per index.
RECURSIVE at(_, _, _)
at(arr, idxs, d) ==
    IF idxs = <<>> THEN arr
    ELSE at([arr EXCEPT ![Head(idxs)] = Int8(@ + d)], Tail(idxs), d)

reset(g) ==
    [g EXCEPT !.table = EmptyBag, !.rack = EmptyBag, !.initial = TRUE,
              !.table_array = Repeat(0, g._tile_count),
              !.rack_array = Repeat(0, g._tile_count)]

add_rack(g, additions) ==
    IF additions = <<>> THEN g
    ELSE [g EXCEPT !.rack = @ (+) Counter(additions),
                   !.rack_array = at(@, additions, 1)]

\* remove_rack leaving the counts of the array as subtracted
remove_rack_unclamped(g, removals) ==
    IF removals = <<>> THEN g
    ELSE [g EXCEPT !.rack = @ (-) Counter(removals),
                   !.rack_array = at(@, removals, -1)]

remove_rack(g, removals) ==
    IF removals = <<>> THEN g
    ELSE LET rack == at(g.rack_array, removals, -1)
         IN [g EXCEPT !.rack = @ (-) Counter(removals),
                      !.rack_array =
                          [t \in 1..Len(rack) |-> IF rack[t] < 0 THEN 0 ELSE rack[t]]]

add_table(g, additions) ==
    IF additions = <<>> THEN g
    ELSE [g EXCEPT !.table = @ (+) Counter(additions),
                   !.table_array = at(@, additions, 1)]

\* remove_table leaving the counts of the array as subtracted
remove_table_unclamped(g, removals) ==
    IF removals = <<>> THEN g
    ELSE [g EXCEPT !.table = @ (-) Counter(removals),
                   !.table_array = at(@, removals, -1)]

remove_table(g, removals) ==
    IF removals = <<>> THEN g
    ELSE LET table == at(g.table_array, removals, -1)
         IN [g EXCEPT !.table = @ (-) Counter(removals),
                      !.table_array =
                          [t \in 1..Len(table) |-> IF table[t] < 0 THEN 0 ELSE table[t]]]

\* GameState.__init__
GameState(tc, table, rack) ==
    add_rack(add_table(reset([_tile_count |-> tc, initial |-> TRUE,
                              rack |-> EmptyBag, table |-> EmptyBag,
                              rack_array |-> <<>>, table_array |-> <<>>]),
                       table),
             rack)

sorted_rack(g) == SortedElements(g.rack)
sorted_table(g) == SortedElements(g.table)

\* with_move without its check of the rack
with_move_never_raises(g, tls) == FALSE

\* with_move raises ValueError when the move names tiles not on the rack,
\* and otherwise builds a new state.
with_move_raises(g, tls) == (Counter(tls) (-) g.rack) # EmptyBag

\* with_move leaving the moved tiles on the rack as well
with_move_keeping_rack(g, tls) ==
    GameState(g._tile_count,
              SortedElements(g.table (+) Counter(tls)),
              SortedElements(g.rack))

\* with_move laying the tiles down on a cleared table
with_move_clearing_table(g, tls) ==
    GameState(g._tile_count,
              SortedElements(Counter(tls)),
              SortedElements(g.rack (-) Counter(tls)))

\* with_move taking the tiles off the rack without laying them down
with_move_dropping_tiles(g, tls) ==
    GameState(g._tile_count,
              SortedElements(g.table),
              SortedElements(g.rack (-) Counter(tls)))

with_move(g, tls) ==
    GameState(g._tile_count,
              SortedElements(g.table (+) Counter(tls)),
              SortedElements(g.rack (-) Counter(tls)))

table_only(g) == GameState(g._tile_count, sorted_table(g), <<>>)

----------------------------------------------------------------------------
\* RuleSet.solve and RuleSet.arrange_table (ruleset.py)

new_game(rs) == GameState(tile_count(rs), <<>>, <<>>)

\* solve called without a mode (mode=None)
ModeUnspecified == "None"

\* No solver call was made.
NoCall == SolverSolution(<<>>, <<>>, "none")

\* What a call of solve returns or raises, with the solver solutions it
\* was built from.
Outcome(kind, mode, tls, set_indices, rs, stage1, stage2) ==
    [kind |-> kind, mode |-> mode, tiles |-> tls, set_indices |-> set_indices,
     sets |-> [i \in 1..Len(set_indices) |-> sets[rs][set_indices[i] + 1]],
     stage1 |-> stage1, stage2 |-> stage2]

\* the second round keeping the first call's sets
extend_keeping_first_sets(rs, mode, sol, stage2) ==
    IF sol.seqtype # stage2.seqtype
    THEN Outcome("TypeError", mode, <<>>, <<>>, rs, sol, stage2)
    ELSE Outcome("ProposedSolution", mode, sorted(sol.tiles \o stage2.tiles),
                 sol.set_indices, rs, sol, stage2)

\* The second round of an initial solve: stage2 is never None, so the two
\* tile sequences are always concatenated; list + tuple raises TypeError.
extend(rs, mode, sol, stage2) ==
    IF sol.seqtype # stage2.seqtype
    THEN Outcome("TypeError", mode, <<>>, <<>>, rs, sol, stage2)
    ELSE Outcome("ProposedSolution", mode, sorted(sol.tiles \o stage2.tiles),
                 stage2.set_indices, rs, sol, stage2)

\* solve once the mode is known: the solver call, and for an initial solve
\* on a table with tiles the second round.
solve_in_mode(rs, state, m) ==
    UNION {
      IF sol.tiles = <<>>
      THEN {Outcome("None", m, <<>>, <<>>, rs, sol, NoCall)}
      ELSE IF m = "initial" /\ state.table # EmptyBag
      THEN IF with_move_raises(state, sol.tiles)
           THEN {Outcome("ValueError", m, <<>>, <<>>, rs, sol, NoCall)}
           ELSE { extend(rs, m, sol, stage2) :
                    stage2 \in Solver(rs, "tiles", with_move(state, sol.tiles)) }
      ELSE {Outcome("ProposedSolution", m, sol.tiles, sol.set_indices,
                    rs, sol, NoCall)} :
      sol \in Solver(rs, m, state) }

\* solve taking the tile-count mode whenever no mode is given
solve_default_tile_count(rs, state, mode) ==
    solve_in_mode(rs, state, IF mode = ModeUnspecified THEN "tiles" ELSE mode)

solve(rs, state, mode) ==
    solve_in_mode(rs, state,
                  IF mode = ModeUnspecified
                  THEN (IF state.initial THEN "initial" ELSE "tiles")
                  ELSE mode)

\* What a call of arrange_table returns or raises; jc is the number of
\* jokers on the table in the round that returned.
Arrangement(kind, rs, set_indices, free_jokers, jc) ==
    [kind |-> kind,
     sets |-> [i \in 1..Len(set_indices) |-> sets[rs][set_indices[i] + 1]],
     free_jokers |-> free_jokers, jc |-> jc]

\* The loop of arrange_table from round jc on.
RECURSIVE arrange_rounds(_, _, _, _)

\* the loop reporting the jokers in use as the free jokers
arrange_rounds_reporting_used(rs, copy, jc, joker_count) ==
    IF jc > joker_count
    THEN {Arrangement("None", rs, <<>>, 0, jc)}
    ELSE LET added == IF jc # 0 THEN add_table(copy, <<joker(rs)>>) ELSE copy
         IN UNION {
              IF sol.set_indices # <<>>
              THEN {Arrangement("TableArrangement", rs, sol.set_indices, jc, jc)}
              ELSE arrange_rounds(rs, added, jc + 1, joker_count) :
              sol \in Solver(rs, "tiles", added) }

arrange_rounds(rs, copy, jc, joker_count) ==
    IF jc > joker_count
    THEN {Arrangement("None", rs, <<>>, 0, jc)}
    ELSE LET added == IF jc # 0 THEN add_table(copy, <<joker(rs)>>) ELSE copy
         IN UNION {
              IF sol.set_indices # <<>>
              THEN {Arrangement("TableArrangement", rs, sol.set_indices,
                                joker_count - jc, jc)}
              ELSE arrange_rounds(rs, added, jc + 1, joker_count) :
              sol \in Solver(rs, "tiles", added) }

\* Without a joker tile joker_count is never bound, and reading it for the
\* loop raises UnboundLocalError.
arrange_table(rs, state) ==
    IF joker(rs) = None
    THEN {Arrangement("UnboundLocalError", rs, <<>>, 0, 0)}
    ELSE LET joker_count == Count(table_only(state).table, joker(rs))
             copy == remove_table(table_only(state),
                                  Repeat(joker(rs), joker_count))
         IN arrange_rounds(rs, copy, 0, joker_count)

----------------------------------------------------------------------------
\* The console (console.py): one rule set, the current game, what the
\* running command computed, and where the command loop stands:
\*   "prompt"   waiting for a command,
\*   "confirm"  do_solve waits for the answer to its confirmation,
\*   "postcmd"  the command returned,
\*   "crashed"  the command raised, which ends the command loop.

VARIABLES ruleset, game, output, pc

\* The solver of the rule set, where its calls are followed step by step:
\* the values of its parameters and variables, and the calls in progress.
\* The console is followed command by command, with a call of the solver
\* as the function Solver, and leaves these two as they start.
VARIABLES solver, calls

\* The store of the games of the console, where its commands on games
\* are followed; the other commands leave it as it starts.
VARIABLE _shelve

vars == <<ruleset, game, output, pc, solver, calls, _shelve>>

\* The programs that call the solver.
Callers == {1, 2}

\* No call in progress.
NoCalls == [c \in Callers |-> [pc |-> "idle"]]

\* TileSource.available
\* TileSource.available counting the tiles of the rack as not played
available_ignoring_rack(rs, g, source) ==
    CASE source = "RACK" -> g.rack
      [] source = "TABLE" -> g.table
      [] source = "NOT_PLAYED" ->
           LET counts == [t \in 1..tile_count(rs) |-> rs.repeats]
               supply == IF rs.jokers # 0 /\ rs.jokers # rs.repeats
                         THEN [counts EXCEPT ![joker(rs)] = rs.jokers]
                         ELSE counts
           IN supply (-) g.table

available(rs, g, source) ==
    CASE source = "RACK" -> g.rack
      [] source = "TABLE" -> g.table
      [] source = "NOT_PLAYED" ->
           LET counts == [t \in 1..tile_count(rs) |-> rs.repeats]
               supply == IF rs.jokers # 0 /\ rs.jokers # rs.repeats
                         THEN [counts EXCEPT ![joker(rs)] = rs.jokers]
                         ELSE counts
           IN supply (-) (g.table (+) g.rack)

\* TileSource.parse_tiles, on tile numbers: a tile that is not available
\* is reported and skipped.
RECURSIVE take(_, _)
take(avail, args) ==
    IF args = <<>> THEN <<>>
    ELSE IF Count(avail, Head(args)) = 0 THEN take(avail, Tail(args))
    ELSE <<Head(args)>> \o take([avail EXCEPT ![Head(args)] = @ - 1], Tail(args))

parse_tiles(rs, g, source, args) == take(available(rs, g, source), args)

\* The tiles the user names in commands: any tile, and for the rule set
\* with sets of three tiles the black 1, the black 4 and the joker.
Typed(rs) == IF rs = MeldRuleSet THEN {1, 4, joker(rs)} ELSE 1..tile_count(rs)

\* The tile arguments a command is given: one tile name per command.
Args(rs) == { <<t>> : t \in Typed(rs) }

\* The games explored hold at most MaxRack and MaxTable tiles.
InBounds(g) ==
    /\ BagCardinality(g.rack) <= MaxRack
    /\ BagCardinality(g.table) <= MaxTable

\* No command output (a command that only changes the game).
NoOutput == [command |-> "none"]

Init ==
    /\ ruleset \in RuleSets
    /\ game = new_game(ruleset)
    /\ output = NoOutput
    /\ pc = "prompt"
    /\ solver = NewSolver
    /\ calls = NoCalls
    /\ _shelve = Unset

\* A command that changes the game to g (within the bounds) and returns.
Update(g) ==
    /\ pc = "prompt"
    /\ InBounds(g)
    /\ game' = g
    /\ output' = NoOutput
    /\ pc' = "postcmd"
    /\ UNCHANGED ruleset
    /\ UNCHANGED <<solver, calls, _shelve>>

do_addrack ==
    \E args \in Args(ruleset) :
        LET tls == parse_tiles(ruleset, game, "NOT_PLAYED", args)
        IN Update(IF tls # <<>> THEN add_rack(game, tls) ELSE game)

do_removerack ==
    \E args \in Args(ruleset) :
        LET tls == parse_tiles(ruleset, game, "RACK", args)
        IN Update(IF tls # <<>> THEN remove_rack(game, tls) ELSE game)

do_addtable ==
    \E args \in Args(ruleset) :
        LET tls == parse_tiles(ruleset, game, "NOT_PLAYED", args)
        IN Update(IF tls # <<>> THEN add_table(game, tls) ELSE game)

do_removetable ==
    \E args \in Args(ruleset) :
        LET tls == parse_tiles(ruleset, game, "TABLE", args)
        IN Update(IF tls # <<>> THEN remove_table(game, tls) ELSE game)

do_place ==
    \E args \in Args(ruleset) :
        LET tls == parse_tiles(ruleset, game, "RACK", args)
        IN Update(IF tls # <<>> THEN add_table(remove_rack(game, tls), tls)
                  ELSE game)

do_remove ==
    \E args \in Args(ruleset) :
        LET tls == parse_tiles(ruleset, game, "TABLE", args)
        IN Update(IF tls # <<>> THEN add_rack(remove_table(game, tls), tls)
                  ELSE game)

do_clear ==
    \E arg \in {"", "table", "rack"}, confirm \in BOOLEAN :
        LET g1 == IF arg \in {"", "table"}
                  THEN remove_table(game, sorted_table(game)) ELSE game
            g2 == IF arg \in {"", "rack"}
                  THEN remove_rack(g1, sorted_rack(g1)) ELSE g1
        IN Update(IF confirm THEN g2 ELSE game)

do_reset ==
    \E confirm \in BOOLEAN : Update(IF confirm THEN reset(game) ELSE game)

do_initial ==
    \E arg \in {"", "clear", "set"} :
        Update(CASE arg = "" -> [game EXCEPT !.initial = ~@]
                 [] arg = "clear" -> [game EXCEPT !.initial = FALSE]
                 [] arg = "set" -> [game EXCEPT !.initial = TRUE])

\* do_solve up to its confirmation: the solution is computed and shown.
\* Without a solution the command returns; an exception of solve is not
\* caught.
do_solve ==
    /\ pc = "prompt"
    /\ \E arg \in {"", "tiles", "value", "initial"} :
         LET mode == IF arg = "" THEN ModeUnspecified ELSE arg
         IN \E sol \in solve(ruleset, game, mode) :
              /\ output' = [command |-> "solve", arg |-> arg, state |-> game,
                            sol |-> sol, accepted |-> FALSE]
              /\ pc' = CASE sol.kind = "None" -> "postcmd"
                         [] sol.kind = "ProposedSolution" -> "confirm"
                         [] OTHER -> "crashed"
    /\ UNCHANGED <<ruleset, game>>
    /\ UNCHANGED <<solver, calls, _shelve>>

\* do_solve after its confirmation: the tiles are placed when the user
\* agrees.
do_solve_confirm ==
    /\ pc = "confirm"
    /\ \E confirm \in BOOLEAN :
         LET placed == [add_table(remove_rack(game, output.sol.tiles),
                                  output.sol.tiles)
                          EXCEPT !.initial = FALSE]
         IN /\ confirm => InBounds(placed)
            /\ game' = IF confirm THEN placed ELSE game
            /\ output' = [output EXCEPT !.accepted = confirm]
    /\ pc' = "postcmd"
    /\ UNCHANGED ruleset
    /\ UNCHANGED <<solver, calls, _shelve>>

\* do_check: the arrangement of the table is computed and shown; an
\* exception of arrange_table is not caught.
do_check ==
    /\ pc = "prompt"
    /\ \E arr \in arrange_table(ruleset, game) :
         /\ output' = [command |-> "check", state |-> game, arr |-> arr]
         /\ pc' = IF arr.kind \in {"None", "TableArrangement"}
                  THEN "postcmd" ELSE "crashed"
    /\ UNCHANGED <<ruleset, game>>
    /\ UNCHANGED <<solver, calls, _shelve>>

\* postcmd: back to the prompt; what the command computed is gone.
postcmd ==
    /\ pc = "postcmd"
    /\ pc' = "prompt"
    /\ output' = NoOutput
    /\ UNCHANGED <<ruleset, game>>
    /\ UNCHANGED <<solver, calls, _shelve>>

Next ==
    \/ do_addrack
    \/ do_removerack
    \/ do_addtable
    \/ do_removetable
    \/ do_place
    \/ do_remove
    \/ do_clear
    \/ do_reset
    \/ do_initial
    \/ do_solve
    \/ do_solve_confirm
    \/ do_check
    \/ postcmd

Spec == Init /\ [][Next]_vars

\* The console of the rule set with sets of three tiles.
InitMeld ==
    /\ ruleset = MeldRuleSet
    /\ game = new_game(ruleset)
    /\ output = NoOutput
    /\ pc = "prompt"
    /\ solver = NewSolver
    /\ calls = NoCalls
    /\ _shelve = Unset

SpecMeld == InitMeld /\ [][Next]_vars

----------------------------------------------------------------------------
\* Construction of a rule set (ruleset.py, __main__.py)

\* click.IntRange(lo, hi): the value is accepted
IntRange(v, lo, hi) == v >= lo /\ v <= hi

\* The options of rsconsole all pass their click.IntRange.
options_accepted(p) ==
    /\ IntRange(p.numbers, 2, 26)
    /\ IntRange(p.repeats, 1, 4)
    /\ IntRange(p.colours, 2, 8)
    /\ IntRange(p.jokers, 0, 4)
    /\ IntRange(p.min_len, 2, 6)
    /\ IntRange(p.min_initial_value, 1, 50)

\* RuleSet.__init__: the parameters are stored unchecked and the solver
\* is built, which enumerates the sets and computes their values; the
\* value of a set of jokers only raises StopIteration.
RuleSet(p) ==
    LET ss == new_sets(p)
        raised == \E k \in 1..Len(ss) : _calc(p, ss[k]) = StopIteration
    IN [kind |-> IF raised THEN "StopIteration" ELSE "RuleSet",
        sets |-> ss,
        setvalues |-> IF raised THEN <<>>
                      ELSE [k \in 1..Len(ss) |-> _calc(p, ss[k])]]

\* The configurations explored: numbers that leave room for a run of the
\* minimum length, and values on both sides of the lower limits of the
\* other options.
Configs ==
    [numbers : {MaxMinLen, MaxMinLen + 1}, repeats : {0, 1},
     colours : 1..MaxColours, jokers : 0..MaxJokers,
     min_len : 1..MaxMinLen, min_initial_value : {0, 5}]

\* No game exists before a rule set does.
NoGame == [command |-> "none"]

InitRules ==
    /\ ruleset \in Configs
    /\ game = NoGame
    /\ output = NoOutput
    /\ pc = "args"
    /\ solver = NewSolver
    /\ calls = NoCalls
    /\ _shelve = Unset

\* RuleSet(...) called by a program that uses the rule set directly.
new_RuleSet ==
    /\ pc = "args"
    /\ LET made == RuleSet(ruleset)
       IN /\ output' = [command |-> "RuleSet", kind |-> made.kind,
                         sets |-> made.sets, setvalues |-> made.setvalues]
          /\ game' = IF made.kind = "RuleSet" THEN new_game(ruleset) ELSE game
    /\ pc' = "done"
    /\ UNCHANGED ruleset
    /\ UNCHANGED <<solver, calls, _shelve>>

\* rsconsole: click checks the options, then the rule set is constructed.
rsconsole ==
    /\ pc = "args"
    /\ LET made == IF options_accepted(ruleset) THEN RuleSet(ruleset)
                   ELSE [kind |-> "BadParameter", sets |-> <<>>,
                         setvalues |-> <<>>]
       IN /\ output' = [command |-> "rsconsole", kind |-> made.kind,
                         sets |-> made.sets, setvalues |-> made.setvalues]
          /\ game' = IF made.kind = "RuleSet" THEN new_game(ruleset) ELSE game
    /\ pc' = "done"
    /\ UNCHANGED ruleset
    /\ UNCHANGED <<solver, calls, _shelve>>

NextRules ==
    \/ new_RuleSet
    \/ rsconsole

SpecRules == InitRules /\ [][NextRules]_vars

----------------------------------------------------------------------------
\* Properties.  They are stated over `output`, which holds the state a
\* command was given and what solve or arrange_table made of it.

Solved == output.command = "solve"
Proposed == Solved /\ output.sol.kind = "ProposedSolution"
Checked == output.command = "check"

\* The tiles of a sequence of sets, as a bag.
RECURSIVE TilesOf(_)
TilesOf(ss) ==
    IF ss = <<>> THEN EmptyBag ELSE Counter(Head(ss)) (+) TilesOf(Tail(ss))

IsSorted(s) == \A i \in 1..(Len(s) - 1) : s[i] <= s[i + 1]

\* The sets of a rule set's enumeration, as a set.
Enumerated ==
    [rs \in AllRuleSets |-> {sets[rs][k] : k \in 1..Len(sets[rs])}]

\* The runs and groups of the game: consecutive numbers of one colour or
\* one number in distinct colours, of the minimum length at least, with
\* any tiles replaced by jokers as far as the jokers go.
ValidSets ==
    [rs \in AllRuleSets |->
        LET runs == { [i \in 1..len |-> rs.numbers * c + num + i - 1] :
                        <<c, len, num>> \in
                          { <<c, len, num>> \in
                               (0..(rs.colours - 1))
                                 \X (rs.min_len..rs.numbers)
                                 \X (1..rs.numbers) :
                               num + len - 1 <= rs.numbers } }
            groups == { [i \in 1..Cardinality(cs) |->
                            num + rs.numbers * Nth(cs, i)] :
                          <<num, cs>> \in
                            (1..rs.numbers)
                              \X {cs \in SUBSET (0..(rs.colours - 1)) :
                                     Cardinality(cs) >= rs.min_len} }
        IN { [i \in 1..Len(b) |-> IF i \in P THEN joker(rs) ELSE b[i]] :
               <<b, P>> \in
                 { <<b, P>> \in (runs \cup groups)
                                   \X SUBSET (1..Max(rs.numbers, rs.colours)) :
                     /\ P \subseteq 1..Len(b)
                     /\ Cardinality(P) <= rs.jokers } }]

\* The smallest tile of a non-empty bag.
Lowest(bag) == CHOOSE t \in DOMAIN bag : \A u \in DOMAIN bag : t <= u

\* A bag of tiles can be split into sets of S.
RECURSIVE CanArrange(_, _)
CanArrange(S, bag) ==
    \/ bag = EmptyBag
    \/ \E s \in S :
         /\ \E i \in 1..Len(s) : s[i] = Lowest(bag)
         /\ Counter(s) \sqsubseteq bag
         /\ CanArrange(S, bag (-) Counter(s))

\* The largest total set value of a split of a bag of tiles into
\* enumerated sets, -1 when it has no such split.
RECURSIVE BestValue(_, _)
BestValue(rs, bag) ==
    IF bag = EmptyBag THEN 0
    ELSE LET fit == {k \in 1..Len(sets[rs]) :
                        /\ \E i \in 1..Len(sets[rs][k]) :
                              sets[rs][k][i] = Lowest(bag)
                        /\ Counter(sets[rs][k]) \sqsubseteq bag}
             rest == [k \in fit |-> BestValue(rs, bag (-) Counter(sets[rs][k]))]
             vals == {setvalues[rs][k] + rest[k] : k \in {j \in fit : rest[j] >= 0}}
         IN IF vals = {} THEN -1
            ELSE CHOOSE v \in vals : \A w \in vals : w <= v

\* The total set value of the sets with the given indices.
RECURSIVE ValueOf(_, _)
ValueOf(rs, set_indices) ==
    IF set_indices = <<>> THEN 0
    ELSE setvalues[rs][Head(set_indices) + 1] + ValueOf(rs, Tail(set_indices))

\* The number of jokers on the table of a state.
JokersOn(rs, state) ==
    IF rs.jokers = 0 THEN 0 ELSE Count(state.table, joker(rs))

\* The table of a state with k jokers instead of its own.
WithJokers(rs, state, k) ==
    IF rs.jokers = 0 THEN state.table
    ELSE (state.table (-) Counter(Repeat(joker(rs), JokersOn(rs, state))))
            (+) Counter(Repeat(joker(rs), k))

\* The table of a state with k jokers has a split into enumerated sets.
Admits(rs, state, k) ==
    /\ WithJokers(rs, state, k) # EmptyBag
    /\ CanArrange(Enumerated[rs], WithJokers(rs, state, k))

\* C1: the tiles solve returns are on the rack of the state it was given,
\* as often as returned at least; after a second round they are the tiles
\* of the two solver calls together.
C1_TilesFromRack ==
    Proposed =>
        /\ Counter(output.sol.tiles) \sqsubseteq output.state.rack
        /\ output.sol.stage2 # NoCall =>
              Counter(output.sol.tiles) =
                  Counter(output.sol.stage1.tiles)
                      (+) Counter(output.sol.stage2.tiles)

C1_Witness ==
    /\ Proposed
    /\ output.sol.mode = "initial"
    /\ output.sol.stage2 # NoCall
    /\ output.sol.stage2.tiles # <<>>

\* C2: in the modes "tiles" and "value" the returned sets hold exactly the
\* tiles of the table and the returned tiles.
C2_SetsCoverTableAndTiles ==
    (Proposed /\ output.sol.mode \in {"tiles", "value"}) =>
        TilesOf(output.sol.sets)
            = output.state.table (+) Counter(output.sol.tiles)

C2_Witness ==
    /\ Proposed
    /\ output.sol.mode = "value"
    /\ output.state.table # EmptyBag
    /\ Len(output.sol.sets) >= 2

\* C3 as claimed: the sets an initial solve returns total the minimum
\* initial value at least, also when they are those of the second call.
C3_ReturnedSetsReachMinimum ==
    (Proposed /\ output.sol.mode = "initial") =>
        ValueOf(ruleset, output.sol.set_indices)
            >= ruleset.min_initial_value

\* C3: the sets of the initial-meld call of an initial solve total the
\* minimum initial value at least, and so do the returned sets when the
\* table of the state is empty.
C3_InitialMeldReachesMinimum ==
    (Proposed /\ output.sol.mode = "initial") =>
        /\ ValueOf(ruleset, output.sol.stage1.set_indices)
              >= ruleset.min_initial_value
        /\ output.state.table = EmptyBag =>
              ValueOf(ruleset, output.sol.set_indices)
                  >= ruleset.min_initial_value

C3_Witness ==
    /\ Proposed
    /\ output.sol.mode = "initial"
    /\ output.state.table # EmptyBag
    /\ output.sol.stage2 # NoCall
    /\ output.sol.set_indices # output.sol.stage1.set_indices

\* C4 as claimed: after a tile-count solve no larger part of the rack
\* can be added to the table so that the whole splits into valid runs and
\* groups.
C4_OptimalOverValidSets ==
    (Solved /\ output.sol.mode = "tiles"
            /\ output.sol.kind \in {"None", "ProposedSolution"}) =>
        \A sub \in SubBag(output.state.rack) :
            BagCardinality(sub) > Len(output.sol.tiles) =>
                ~CanArrange(ValidSets[ruleset], output.state.table (+) sub)

\* C4: after a tile-count solve no larger part of the rack can be added
\* to the table so that the whole splits into sets of the rule set's
\* enumeration.
C4_OptimalOverEnumeratedSets ==
    (Solved /\ output.sol.mode = "tiles"
            /\ output.sol.kind \in {"None", "ProposedSolution"}) =>
        \A sub \in SubBag(output.state.rack) :
            BagCardinality(sub) > Len(output.sol.tiles) =>
                ~CanArrange(Enumerated[ruleset], output.state.table (+) sub)

C4_Witness ==
    /\ Proposed
    /\ output.sol.mode = "tiles"
    /\ output.state.table # EmptyBag
    /\ Len(output.sol.tiles) = 2
    /\ BagCardinality(output.state.rack) = 3

\* C5: without a mode solve takes the initial mode when the state is
\* initial and the tile-count mode otherwise; an initial solve returns
\* None exactly when no part of the rack splits into enumerated sets of
\* the minimum initial value, a tile-count solve exactly when no non-empty
\* part of the rack can join the table so that the whole splits into
\* enumerated sets.
C5_ModeAndNone ==
    Solved =>
        /\ output.arg = "" =>
              output.sol.mode =
                  IF output.state.initial THEN "initial" ELSE "tiles"
        /\ output.sol.mode = "initial" =>
              (output.sol.kind = "None" <=>
                 ~\E sub \in SubBag(output.state.rack) :
                     BestValue(ruleset, sub) >= ruleset.min_initial_value)
        /\ output.sol.mode = "tiles" =>
              (output.sol.kind = "None" <=>
                 ~\E sub \in SubBag(output.state.rack) :
                     /\ sub # EmptyBag
                     /\ CanArrange(Enumerated[ruleset],
                                   output.state.table (+) sub))

C5_Witness ==
    /\ Solved
    /\ output.arg = ""
    /\ output.state.initial
    /\ output.sol.kind = "None"
    /\ BagCardinality(output.state.rack) >= 2
    /\ output.state.table # EmptyBag

\* C6: when the second call of an initial solve on a table with tiles
\* has a result, the returned tiles are both calls' tiles in sorted order
\* and the returned sets are the second call's, holding exactly the table
\* and the returned tiles.
C6_SecondRoundAdopted ==
    (Solved /\ output.sol.mode = "initial"
            /\ output.state.table # EmptyBag
            /\ output.sol.stage2.seqtype = "list") =>
        /\ output.sol.kind = "ProposedSolution"
        /\ IsSorted(output.sol.tiles)
        /\ Counter(output.sol.tiles) =
              Counter(output.sol.stage1.tiles)
                  (+) Counter(output.sol.stage2.tiles)
        /\ output.sol.set_indices = output.sol.stage2.set_indices
        /\ TilesOf(output.sol.sets) =
              output.state.table (+) Counter(output.sol.tiles)

C6_Witness ==
    /\ Proposed
    /\ output.sol.mode = "initial"
    /\ output.state.table # EmptyBag
    /\ output.sol.stage2.seqtype = "list"
    /\ output.sol.stage2.tiles # <<>>
    /\ Len(output.sol.sets) >= 2

\* C7 as claimed: when the initial-meld call of an initial solve on a
\* table with tiles succeeds and the second call returns the empty
\* solution, solve returns the first call's tiles and sets.
C7_FirstProposalKept ==
    (Solved /\ output.sol.mode = "initial"
            /\ output.state.table # EmptyBag
            /\ output.sol.stage1.tiles # <<>>
            /\ output.sol.stage2.seqtype = "tuple") =>
        /\ output.sol.kind = "ProposedSolution"
        /\ output.sol.tiles = output.sol.stage1.tiles
        /\ output.sol.set_indices = output.sol.stage1.set_indices

C7_Witness ==
    /\ Solved
    /\ output.sol.kind = "TypeError"
    /\ output.sol.stage1.tiles # <<>>
    /\ output.sol.stage2 = SolverSolution(<<>>, <<>>, "tuple")

\* C8: an arrangement arrange_table returns reports between 0 and the
\* table's number of jokers as free, and its sets hold exactly the table
\* without that many jokers.
C8_FreeJokersRemoved ==
    (Checked /\ output.arr.kind = "TableArrangement") =>
        /\ 0 <= output.arr.free_jokers
        /\ output.arr.free_jokers <= JokersOn(ruleset, output.state)
        /\ TilesOf(output.arr.sets) =
              WithJokers(ruleset, output.state,
                         JokersOn(ruleset, output.state)
                             - output.arr.free_jokers)

C8_Witness ==
    /\ Checked
    /\ output.arr.kind = "TableArrangement"
    /\ output.arr.free_jokers = 1
    /\ BagCardinality(output.state.table) = 4

\* C9 as claimed: arrange_table returns at the smallest number k of
\* jokers with which the table's other tiles split into enumerated sets,
\* reporting the table's jokers less k as free, and returns None exactly
\* when no k up to the table's jokers admits a split.
C9_SmallestK ==
    Checked =>
        LET jc == JokersOn(ruleset, output.state)
            ks == {k \in 0..jc : Admits(ruleset, output.state, k)}
        IN /\ ks # {} =>
                /\ output.arr.kind = "TableArrangement"
                /\ jc - output.arr.free_jokers \in ks
                /\ \A k \in ks : jc - output.arr.free_jokers <= k
           /\ ks = {} <=> output.arr.kind = "None"

C9_Witness ==
    /\ Checked
    /\ ruleset.jokers = 0
    /\ output.state.table # EmptyBag
    /\ ~Admits(ruleset, output.state, 0)
    /\ output.arr.kind # "None"

\* C10 as claimed: for a rule set without jokers arrange_table returns
\* an arrangement with no free jokers, or None, and raises no error.
C10_NoJokersNoError ==
    (Checked /\ ruleset.jokers = 0) =>
        /\ output.arr.kind \in {"None", "TableArrangement"}
        /\ output.arr.free_jokers = 0

C10_Witness ==
    /\ Checked
    /\ ruleset.jokers = 0
    /\ output.arr.kind = "UnboundLocalError"
    /\ Admits(ruleset, output.state, 0)

\* C11: when a tile-count solve proposes tiles and they are moved with
\* with_move, the new table holds the old table's tiles and the proposed
\* tiles, splits into enumerated sets, and a further tile-count solve on
\* the new state returns None.
C11_MoveIsFinal ==
    (Proposed /\ output.sol.mode = "tiles") =>
        LET moved == with_move(output.state, output.sol.tiles)
        IN /\ BagCardinality(moved.table) =
                 BagCardinality(output.state.table) + Len(output.sol.tiles)
           /\ CanArrange(Enumerated[ruleset], moved.table)
           /\ \A again \in solve(ruleset, moved, "tiles") :
                 again.kind = "None"

C11_Witness ==
    /\ Proposed
    /\ output.sol.mode = "tiles"
    /\ output.state.table # EmptyBag
    /\ CanArrange(Enumerated[ruleset], output.state.table)
    /\ BagCardinality(output.state.rack) > Len(output.sol.tiles)

----------------------------------------------------------------------------
\* The solver called directly (solver.py), step by step: __call__ sets the
\* parameters, has the problem of its mode solved, and reads the solution
\* from the variables.  Parameters and variables belong to the solver, so
\* the steps of two calls in progress at once can alternate.

\* The states the solver is called with.
SolverStates ==
    { GameState(tile_count(rs), table, rack) :
        rs \in RuleSets, table \in {<<>>, <<4, 5>>},
        rack \in {<<1, 2>>, <<2, 3>>} }

\* The states passed when openings with a joker are explored: racks with
\* and without an opening, the joker on one of them.
OpeningStates ==
    UNION { { GameState(tile_count(rs), table, rack) :
                table \in {<<>>, <<4, 5>>},
                rack \in {<<1, 2>>, <<1, 2, 3, joker(rs)>>} } :
            rs \in {r \in RuleSets : r.jokers > 0} }

\* The states the callers pass.
InputStates == IF pc = "opening" THEN OpeningStates ELSE SolverStates

InitSolver ==
    /\ ruleset \in RuleSets
    /\ game = NoGame
    /\ output = NoOutput
    /\ pc = "calls"
    /\ solver = NewSolver
    /\ calls = NoCalls
    /\ _shelve = Unset

\* Another call is between setting its parameters and reading its solution.
InProgress(c) == \E d \in Callers \ {c} : calls[d].pc \in {"bound", "solved"}

\* The calls in progress other than c have had a step of c in between.
Interfere(cs, c) ==
    [d \in Callers |->
        IF d # c /\ cs[d].pc \in {"bound", "solved"}
        THEN [cs[d] EXCEPT !.interfered = TRUE] ELSE cs[d]]

\* __call__ up to prob.solve: the parameters are set (the two assignments
\* taken as one step).
SetParameters(c) ==
    /\ calls[c].pc = "idle"
    /\ \E mode \in Modes, state \in InputStates :
          /\ state._tile_count = tile_count(ruleset)
          /\ solver' = bind(solver, mode, state)
          /\ calls' = [Interfere(calls, c) EXCEPT
                         ![c] = [pc |-> "bound", mode |-> mode,
                                 state |-> state, interfered |-> FALSE]]
    /\ UNCHANGED <<ruleset, game, output, pc, _shelve>>

\* prob.solve: the problem of the call's mode is solved on the parameters
\* as they are, and the solution is left in the variables.
SolveProblem(c) ==
    /\ calls[c].pc = "bound"
    /\ \E p \in prob_solve(ruleset, calls[c].mode, solver) :
          /\ solver' = [solver EXCEPT !.sets = p.sets, !.tiles = p.tiles]
          /\ calls' = [Interfere(calls, c) EXCEPT
                         ![c] = [calls[c] EXCEPT !.pc = "solved"]
                                  @@ [infeasible |-> p.infeasible]]
    /\ UNCHANGED <<ruleset, game, output, pc, _shelve>>

\* __call__ after prob.solve: the solution is read and returned.
ReadSolution(c) ==
    /\ calls[c].pc = "solved"
    /\ calls' = [calls EXCEPT
                   ![c] = [calls[c] EXCEPT !.pc = "done"]
                            @@ [returned |->
                                  read_solution(solver, calls[c].infeasible)]]
    /\ UNCHANGED <<ruleset, game, output, pc, solver, _shelve>>

\* The caller has its result and is free for another call.
Return(c) ==
    /\ calls[c].pc = "done"
    /\ calls' = [calls EXCEPT ![c] = [pc |-> "idle"]]
    /\ UNCHANGED <<ruleset, game, output, pc, solver, _shelve>>

\* Callers that serialize their calls: a call starts when no other call
\* is in progress.
call_serialized == \E c \in Callers : ~InProgress(c) /\ SetParameters(c)
call_unserialized == \E c \in Callers : SetParameters(c)
call_solve == \E c \in Callers : SolveProblem(c)
call_read == \E c \in Callers : ReadSolution(c)
call_return == \E c \in Callers : Return(c)

NextSolver ==
    \/ call_serialized
    \/ call_solve
    \/ call_read
    \/ call_return

SpecSolver == InitSolver /\ [][NextSolver]_vars

\* Serialized calls on racks that hold a joker.
InitOpening ==
    /\ ruleset \in {r \in RuleSets : r.jokers > 0}
    /\ game = NoGame
    /\ output = NoOutput
    /\ pc = "opening"
    /\ solver = NewSolver
    /\ calls = NoCalls
    /\ _shelve = Unset

SpecOpening == InitOpening /\ [][NextSolver]_vars

NextRace ==
    \/ call_unserialized
    \/ call_solve
    \/ call_read
    \/ call_return

SpecRace == InitSolver /\ [][NextRace]_vars

----------------------------------------------------------------------------
\* The methods of GameState called directly (gamestate.py), on states of a
\* rule set with two copies of each tile.

StateRuleSet ==
    [numbers |-> 3, repeats |-> 2, colours |-> 2, jokers |-> 1,
     min_len |-> 2, min_initial_value |-> 5]

\* The ascending sequences of at most n of the tiles 1 and 2.
Hands(n) ==
    UNION { { Repeat(1, a) \o Repeat(2, k - a) : a \in 0..k } : k \in 0..n }

\* The tile lists of at most n tiles a method is called with, over the
\* tiles 1, 2 and 3.
RECURSIVE Moves(_)
Moves(n) ==
    IF n = 0 THEN {<<>>}
    ELSE Moves(n - 1)
           \cup {Append(m, t) : m \in {x \in Moves(n - 1) : Len(x) = n - 1},
                                t \in 1..3}

InitState ==
    /\ ruleset = StateRuleSet
    /\ \E table \in Hands(MaxHand), rack \in Hands(MaxHand), initial \in BOOLEAN :
          game = [GameState(tile_count(ruleset), table, rack)
                    EXCEPT !.initial = initial]
    /\ output = NoOutput
    /\ pc = "call"
    /\ solver = NewSolver
    /\ calls = NoCalls
    /\ _shelve = Unset

call_remove_rack ==
    /\ pc = "call"
    /\ \E removals \in Moves(MaxMove) :
          /\ game' = remove_rack(game, removals)
          /\ output' = [command |-> "remove_rack", before |-> game,
                        args |-> removals, kind |-> "None"]
    /\ pc' = "returned"
    /\ UNCHANGED ruleset
    /\ UNCHANGED <<solver, calls, _shelve>>

call_remove_table ==
    /\ pc = "call"
    /\ \E removals \in Moves(MaxMove) :
          /\ game' = remove_table(game, removals)
          /\ output' = [command |-> "remove_table", before |-> game,
                        args |-> removals, kind |-> "None"]
    /\ pc' = "returned"
    /\ UNCHANGED ruleset
    /\ UNCHANGED <<solver, calls, _shelve>>

\* with_move reads the state and builds another; the state it is called
\* on is not assigned to.
call_with_move ==
    /\ pc = "call"
    /\ \E tls \in Moves(MaxMove) :
          output' = IF with_move_raises(game, tls)
                    THEN [command |-> "with_move", before |-> game,
                          args |-> tls, kind |-> "ValueError"]
                    ELSE [command |-> "with_move", before |-> game,
                          args |-> tls, kind |-> "GameState",
                          derived |-> with_move(game, tls)]
    /\ pc' = "returned"
    /\ UNCHANGED <<ruleset, game>>
    /\ UNCHANGED <<solver, calls, _shelve>>

\* The caller goes on to its next call.
returned ==
    /\ pc = "returned"
    /\ pc' = "call"
    /\ output' = NoOutput
    /\ UNCHANGED <<ruleset, game>>
    /\ UNCHANGED <<solver, calls, _shelve>>

NextState ==
    \/ call_remove_rack
    \/ call_remove_table
    \/ call_with_move
    \/ returned

SpecState == InitState /\ [][NextState]_vars

\* The mutating methods of GameState called one after another on one
\* state, no tile held more than MaxCount times in one place.
InitViews ==
    /\ ruleset = StateRuleSet
    /\ game = GameState(tile_count(ruleset), <<>>, <<>>)
    /\ output = NoOutput
    /\ pc = "views"
    /\ solver = NewSolver
    /\ calls = NoCalls
    /\ _shelve = Unset

WithinCount(g) ==
    \A t \in 1..g._tile_count :
        g.rack_array[t] <= MaxCount /\ g.table_array[t] <= MaxCount

\* The call named more copies of a tile than the counter held.
Short(counter, removals) == (Counter(removals) (-) counter) # EmptyBag

\* A method is called with a tile list and returns None.
Called(name, g, args, short) ==
    /\ pc = "views"
    /\ WithinCount(g)
    /\ game' = g
    /\ output' = [command |-> name, empty |-> (args = <<>>), short |-> short]
    /\ UNCHANGED <<ruleset, pc, solver, calls, _shelve>>

view_add_rack ==
    \E additions \in Moves(MaxMove) :
        Called("add_rack", add_rack(game, additions), additions, FALSE)

view_remove_rack ==
    \E removals \in Moves(MaxMove) :
        Called("remove_rack", remove_rack(game, removals), removals,
               Short(game.rack, removals))

view_add_table ==
    \E additions \in Moves(MaxMove) :
        Called("add_table", add_table(game, additions), additions, FALSE)

view_remove_table ==
    \E removals \in Moves(MaxMove) :
        Called("remove_table", remove_table(game, removals), removals,
               Short(game.table, removals))

view_reset == Called("reset", reset(game), <<>>, FALSE)

NextViews ==
    \/ view_add_rack
    \/ view_remove_rack
    \/ view_add_table
    \/ view_remove_table
    \/ view_reset

SpecViews == InitViews /\ [][NextViews]_vars

\* RuleSet.solve and RuleSet.arrange_table called on a state of the caller
\* (ruleset.py).

\* table_only handing back the state it was called on
table_only_returning_self == "caller"

\* The object table_only returns: a GameState of its own, built by
\* type(self)(...), and not the state it was called on.
table_only_object == "derived"

\* The state of the caller after arrange_table returned or raised a:
\* the jokers are taken off and put back on the object table_only
\* returned, one for every round after the first.
arrange_table_leaves(rs, state, a) ==
    IF joker(rs) = None \/ table_only_object = "derived" THEN state
    ELSE LET joker_count == Count(state.table, joker(rs))
             removed == remove_table(state, Repeat(joker(rs), joker_count))
         IN add_table(removed, Repeat(joker(rs), Min(a.jc, joker_count)))

\* The state of the caller after solve: the solver reads the arrays of the
\* state, and the second round works on the state with_move built.
solve_leaves(rs, state, o) == state

\* The states of the caller: tables with and without a joker.
BorrowedStates(rs) ==
    { [GameState(tile_count(rs), table, rack) EXCEPT !.initial = initial] :
        table \in {<<>>, <<1, 2>>, <<4, 5>>}
                   \cup (IF rs.jokers = 0 THEN {}
                         ELSE {<<1, joker(rs)>>, <<1, 2, joker(rs)>>}),
        rack \in {<<>>, <<3>>, <<3, 6>>},
        initial \in BOOLEAN }

InitBorrow ==
    /\ ruleset \in RuleSets
    /\ game \in BorrowedStates(ruleset)
    /\ output = NoOutput
    /\ pc = "call"
    /\ solver = NewSolver
    /\ calls = NoCalls
    /\ _shelve = Unset

call_RuleSet_solve ==
    /\ pc = "call"
    /\ \E mode \in Modes \cup {ModeUnspecified} :
          \E o \in solve(ruleset, game, mode) :
              /\ game' = solve_leaves(ruleset, game, o)
              /\ output' = [command |-> "solve", before |-> game,
                            kind |-> o.kind, mode |-> o.mode,
                            stage2 |-> o.stage2 # NoCall]
    /\ pc' = "returned"
    /\ UNCHANGED <<ruleset, solver, calls, _shelve>>

call_arrange_table ==
    /\ pc = "call"
    /\ \E a \in arrange_table(ruleset, game) :
          /\ game' = arrange_table_leaves(ruleset, game, a)
          /\ output' = [command |-> "arrange_table", before |-> game,
                        kind |-> a.kind, jc |-> a.jc,
                        free_jokers |-> a.free_jokers]
    /\ pc' = "returned"
    /\ UNCHANGED <<ruleset, solver, calls, _shelve>>

NextBorrow ==
    \/ call_RuleSet_solve
    \/ call_arrange_table
    \/ returned

SpecBorrow == InitBorrow /\ [][NextBorrow]_vars

----------------------------------------------------------------------------
\* The games of the console (console.py): a shelf with an entry per game
\* under its name, and under the key CURRENT the name of the current game.
\* The shelf is a sequence of entries in the order its keys are listed.

CURRENT == "__current_game__"
DEFAULT_NAME == "default"

\* The values of the shelf: a GameState, or a string.
GameEntry(g) == [type |-> "GameState", state |-> g]
NameEntry(n) == [type |-> "str", name |-> n]

\* key in shelf, shelf[key], shelf[key] = value, del shelf[key]
contains(sh, k) == \E i \in 1..Len(sh) : sh[i].key = k
getitem(sh, k) == sh[CHOOSE i \in 1..Len(sh) : sh[i].key = k].value
setitem(sh, k, v) ==
    IF contains(sh, k)
    THEN [i \in 1..Len(sh) |-> IF sh[i].key = k THEN [key |-> k, value |-> v]
                               ELSE sh[i]]
    ELSE Append(sh, [key |-> k, value |-> v])
delitem(sh, k) == SelectSeq(sh, LAMBDA e : e.key # k)

\* What a read of the shelf or a command gives: a value, or the exception
\* raised.
Raised(kind) == [kind |-> kind]
Value(v) == [kind |-> "value", value |-> v]

\* The getter of _current_game.
current_game(sh) ==
    IF sh = <<>> THEN Value(DEFAULT_NAME)
    ELSE IF ~contains(sh, CURRENT) THEN Raised("KeyError")
    ELSE Value(getitem(sh, CURRENT).name)

\* The game property: the entry under the name of the current game.
stored_game(sh) ==
    LET name == current_game(sh)
    IN IF name.kind # "value" THEN name
       ELSE IF ~contains(sh, name.value) THEN Raised("KeyError")
       ELSE Value(getitem(sh, name.value))

\* _update_prompt reads game.initial, which a string does not have.
_update_prompt(sh) ==
    LET g == stored_game(sh)
    IN IF g.kind # "value" THEN g.kind
       ELSE IF g.value.type # "GameState" THEN "AttributeError"
       ELSE "None"

\* What a command leaves: the shelf, what it returned or raised, and
\* whether it reported an error.
Left(sh, kind, error) == [shelve |-> sh, kind |-> kind, error |-> error]

\* The setter of _current_game, the last step of a command.
set_current_game(sh, name) ==
    LET named == setitem(sh, CURRENT, NameEntry(name))
    IN Left(named, _update_prompt(named), FALSE)

\* The names of the games that are listed.
listed(sh) == SelectSeq([i \in 1..Len(sh) |-> sh[i].key],
                        LAMBDA n : SubSeq(n, 1, 1) # "_")

\* names.index(name), from 0; the length of names when name is not in it.
index(names, name) ==
    IF \E i \in 1..Len(names) : names[i] = name
    THEN (CHOOSE i \in 1..Len(names) :
             names[i] = name /\ \A j \in 1..(i - 1) : names[j] # name) - 1
    ELSE Len(names)

name_(sh, newname) ==
    IF newname = "" THEN Left(sh, "None", TRUE)
    ELSE LET oldname == current_game(sh)
         IN IF oldname.kind # "value" THEN Left(sh, oldname.kind, FALSE)
            ELSE IF ~contains(sh, oldname.value) THEN Left(sh, "KeyError", FALSE)
            ELSE set_current_game(
                     setitem(delitem(sh, oldname.value), newname,
                             getitem(sh, oldname.value)),
                     newname)

\* The name newgame generates: the first of game<count>, game<count + 1>,
\* ... that is not a key.
RECURSIVE generated(_, _)
generated(sh, count) ==
    IF contains(sh, "game" \o ToString(count)) THEN generated(sh, count + 1)
    ELSE "game" \o ToString(count)

newgame(rs, sh, name) ==
    IF contains(sh, name) THEN Left(sh, "None", TRUE)
    ELSE LET new == IF name = "" THEN generated(sh, Len(sh) + 1) ELSE name
         IN set_current_game(setitem(sh, new, GameEntry(new_game(rs))), new)

\* The game delete switches to when it deletes the current game, or the
\* exception raised in looking for it.
switch_target(sh, name) ==
    LET names == listed(sh)
    IN IF Len(names) > 1
       THEN (IF index(names, name) = Len(names) THEN Raised("ValueError")
             ELSE Value(names[((index(names, name) + 1) % Len(names)) + 1]))
       ELSE Value(DEFAULT_NAME)

delete(rs, sh, arg, confirm) ==
    LET current == current_game(sh)
        name == IF arg = "" THEN current ELSE Value(arg)
    IN IF name.kind # "value" THEN Left(sh, name.kind, FALSE)
       ELSE IF ~contains(sh, name.value) THEN Left(sh, "None", TRUE)
       ELSE IF ~confirm THEN Left(sh, "None", FALSE)
       ELSE IF current.kind # "value" THEN Left(sh, current.kind, FALSE)
       ELSE IF name.value # current.value
       THEN Left(delitem(sh, name.value), "None", FALSE)
       ELSE LET switch_to == switch_target(sh, name.value)
                deleted == delitem(sh, name.value)
            IN IF switch_to.kind # "value" THEN Left(sh, switch_to.kind, FALSE)
               ELSE set_current_game(
                        IF contains(deleted, switch_to.value) THEN deleted
                        ELSE setitem(deleted, switch_to.value,
                                     GameEntry(new_game(rs))),
                        switch_to.value)

switch(sh, name) ==
    IF name = "" THEN Left(sh, "None", TRUE)
    ELSE IF ~contains(sh, name) THEN Left(sh, "None", TRUE)
    ELSE set_current_game(sh, name)

\* initial without an argument, on the current game of the shelf.
initial_(sh) ==
    LET g == stored_game(sh)
    IN IF g.kind # "value" THEN Left(sh, g.kind, FALSE)
       ELSE IF g.value.type # "GameState" THEN Left(sh, "AttributeError", FALSE)
       ELSE Left(setitem(sh, current_game(sh).value,
                         GameEntry([g.value.state EXCEPT !.initial = ~@])),
                 "None", FALSE)

\* The shelf a first start of the console leaves: the default game, and
\* the default game as the current one.
opened(rs) ==
    set_current_game(setitem(<<>>, DEFAULT_NAME, GameEntry(new_game(rs))),
                     DEFAULT_NAME).shelve

\* The names the user types: none, a name, a name with an underscore in
\* front, and the key of the current game.
Names == {"", "a", "_b", CURRENT}

\* The games of a shelf.
Games(sh) == {i \in 1..Len(sh) : sh[i].value.type = "GameState"}

InitGames ==
    /\ ruleset = StateRuleSet
    /\ _shelve = opened(ruleset)
    /\ game = new_game(ruleset)
    /\ output = NoOutput
    /\ pc = "games"
    /\ solver = NewSolver
    /\ calls = NoCalls

\* A command on the games runs: the shelf is as the command left it, and
\* an exception ends the command loop. No more than MaxGames games are
\* kept.
Ran(command, arg, confirm, left) ==
    /\ pc = "games"
    /\ Cardinality(Games(left.shelve)) <= MaxGames
    /\ _shelve' = left.shelve
    /\ output' = [command |-> command, arg |-> arg, confirm |-> confirm,
                  kind |-> left.kind, error |-> left.error,
                  before |-> _shelve]
    /\ pc' = IF left.kind = "None" THEN "games" ELSE "crashed"
    /\ game' = IF _update_prompt(left.shelve) = "None"
               THEN stored_game(left.shelve).value.state ELSE game
    /\ UNCHANGED <<ruleset, solver, calls>>

do_name == \E newname \in Names : Ran("name", newname, FALSE, name_(_shelve, newname))

do_newgame ==
    \E name \in Names : Ran("newgame", name, FALSE, newgame(ruleset, _shelve, name))

do_delete ==
    \E name \in Names, confirm \in BOOLEAN :
        Ran("delete", name, confirm, delete(ruleset, _shelve, name, confirm))

do_switch == \E name \in Names : Ran("switch", name, FALSE, switch(_shelve, name))

do_initial_stored == Ran("initial", "", FALSE, initial_(_shelve))

NextGames ==
    \/ do_name
    \/ do_newgame
    \/ do_delete
    \/ do_switch
    \/ do_initial_stored

SpecGames == InitGames /\ [][NextGames]_vars

----------------------------------------------------------------------------
\* Properties of the construction of a rule set.

\* A construction was attempted and the sets were enumerated.
Constructed == output.command \in {"RuleSet", "rsconsole"}
EnumeratedNow == Constructed /\ output.kind # "BadParameter"

\* The configuration violates a limit of the specification.
OutOfLimits(p) ==
    \/ p.numbers < 2 \/ p.numbers > 26
    \/ p.repeats < 1 \/ p.repeats > 4
    \/ p.colours < 2 \/ p.colours > 8
    \/ p.jokers < 0 \/ p.jokers > 4
    \/ p.min_len < 2 \/ p.min_len > 6
    \/ p.min_initial_value < 1 \/ p.min_initial_value > 50
    \/ p.min_len > p.colours
    \/ p.min_len > p.numbers

\* Colour and face value of a numbered tile, and the numbered tiles of a set.
ColourOf(rs, t) == (t - 1) \div rs.numbers
FaceOf(rs, t) == ((t - 1) % rs.numbers) + 1
Numbered(rs, s) == {i \in 1..Len(s) : s[i] # joker(rs)}
JokersIn(rs, s) == Len(s) - Cardinality(Numbered(rs, s))

\* C12 as claimed: a construction from a configuration outside the limits
\* is rejected with a configuration error and creates no rule set.
C12_InvalidConfigRejected ==
    (Constructed /\ OutOfLimits(ruleset)) =>
        /\ output.kind \in {"InvalidConfig", "BadParameter"}
        /\ game = NoGame

C12_Witness ==
    /\ output.command = "rsconsole"
    /\ output.kind = "RuleSet"
    /\ ruleset.min_len > ruleset.colours
    /\ game # NoGame

\* C18: every enumerated set is a run or a group: leaving jokers aside,
\* tiles of one colour with distinct numbers within a window of as many
\* numbers as the set is long, the set at least min_len and less than
\* twice min_len long; or tiles of one number in distinct colours, the set
\* between min_len and colours long.
C18_SetsAreRunsOrGroups ==
    EnumeratedNow =>
        \A k \in 1..Len(output.sets) :
            LET s == output.sets[k]
                nj == Numbered(ruleset, s)
                distinct(f(_)) == \A i, j \in nj : i # j => f(s[i]) # f(s[j])
                same(f(_)) == \A i, j \in nj : f(s[i]) = f(s[j])
                colour(t) == ColourOf(ruleset, t)
                face(t) == FaceOf(ruleset, t)
                run == /\ same(colour)
                       /\ distinct(face)
                       /\ \A i, j \in nj : face(s[i]) - face(s[j]) <= Len(s) - 1
                       /\ Len(s) <= ruleset.numbers
                       /\ ruleset.min_len <= Len(s)
                       /\ Len(s) < 2 * ruleset.min_len
                group == /\ same(face)
                         /\ distinct(colour)
                         /\ ruleset.min_len <= Len(s)
                         /\ Len(s) <= ruleset.colours
            IN /\ \A i \in nj : s[i] \in 1..(ruleset.numbers * ruleset.colours)
               /\ run \/ group

C18_Witness ==
    /\ EnumeratedNow
    /\ ruleset.colours >= 2
    /\ \E k \in 1..Len(output.sets) :
          /\ Len(output.sets[k]) = ruleset.min_len + 1
          /\ output.sets[k][1] = ruleset.numbers - ruleset.min_len
          /\ JokersIn(ruleset, output.sets[k]) = 1

\* C19: every enumerated set holds at most J jokers, and an enumerated set
\* longer than min_len that holds a joker is a run whose lowest and highest
\* numbers are numbered tiles as far apart as the set is long, less one
\* (so no group longer than min_len holds a joker).
C19_SurplusJokersSuppressed ==
    EnumeratedNow =>
        \A k \in 1..Len(output.sets) :
            LET s == output.sets[k]
                nj == Numbered(ruleset, s)
            IN /\ JokersIn(ruleset, s) <= ruleset.jokers
               /\ (Len(s) > ruleset.min_len /\ JokersIn(ruleset, s) > 0) =>
                     /\ \A i, j \in nj :
                           ColourOf(ruleset, s[i]) = ColourOf(ruleset, s[j])
                     /\ \E i, j \in nj :
                           FaceOf(ruleset, s[j]) - FaceOf(ruleset, s[i])
                               = Len(s) - 1

C19_Witness ==
    /\ EnumeratedNow
    /\ ruleset.jokers = 2
    /\ \E k \in 1..Len(output.sets) :
          /\ Len(output.sets[k]) = ruleset.min_len + 1
          /\ JokersIn(ruleset, output.sets[k]) = 2

\* C20: the enumerated sets are in ascending lexicographic order and no
\* two of them hold the same tiles.
C20_SortedAndDistinct ==
    EnumeratedNow =>
        \A i, j \in 1..Len(output.sets) :
            i < j =>
                /\ \E n \in 1..Len(output.sets[i]) :
                      /\ \A m \in 1..(n - 1) :
                            /\ m <= Len(output.sets[j])
                            /\ output.sets[i][m] = output.sets[j][m]
                      /\ \/ /\ n <= Len(output.sets[j])
                            /\ output.sets[i][n] < output.sets[j][n]
                         \/ /\ n = Len(output.sets[i])
                            /\ n < Len(output.sets[j])
                            /\ output.sets[i][n] = output.sets[j][n]
                /\ Counter(output.sets[i]) # Counter(output.sets[j])

C20_Witness ==
    /\ EnumeratedNow
    /\ ruleset.jokers = 2
    /\ ruleset.min_len = 3
    /\ ruleset.colours = 3
    /\ \E i, j \in 1..Len(output.sets) :
          /\ i < j
          /\ Len(output.sets[i]) > Len(output.sets[j])

\* The configuration is within every limit of the specification.
Legal(p) == ~OutOfLimits(p)

\* The numbered tiles, and the ways of letting every joker of a set stand
\* for a numbered tile.
NumberedTiles(rs) == 1..(rs.numbers * rs.colours)
StandIns(rs, s) ==
    { f \in [1..Len(s) -> NumberedTiles(rs)] :
        \A i \in Numbered(rs, s) : f[i] = s[i] }

\* Tiles of one colour whose numbers are consecutive.
IsRun(rs, f) ==
    LET faces == { FaceOf(rs, f[i]) : i \in 1..Len(f) }
    IN /\ \A i, j \in 1..Len(f) : ColourOf(rs, f[i]) = ColourOf(rs, f[j])
       /\ Cardinality(faces) = Len(f)
       /\ \A a, b \in faces : a - b <= Len(f) - 1

\* Tiles of one number, no more than there are colours.
IsGroup(rs, f) ==
    /\ \A i, j \in 1..Len(f) : FaceOf(rs, f[i]) = FaceOf(rs, f[j])
    /\ Len(f) <= rs.colours

FaceTotal(rs, f) == SumOver([i \in 1..Len(f) |-> FaceOf(rs, f[i])], 1..Len(f))

\* The totals of a set over the stand-ins that make it a run or a group.
Totals(rs, s) ==
    { FaceTotal(rs, f) : f \in { g \in StandIns(rs, s) :
                                    IsRun(rs, g) \/ IsGroup(rs, g) } }

\* C21: in a rule set within the limits, the value of every enumerated
\* set that holds a numbered tile is the highest total of face values over
\* the ways of letting its jokers stand for numbered tiles that make it a
\* run or a group; a set without jokers is worth the sum of its faces.
C21_ValueIsBestStandIn ==
    (EnumeratedNow /\ Legal(ruleset)) =>
        \A k \in 1..Len(output.sets) :
            LET s == output.sets[k]
                v == _calc(ruleset, s)
            IN Numbered(ruleset, s) # {} =>
                 /\ v \in Totals(ruleset, s)
                 /\ \A t \in Totals(ruleset, s) : t <= v
                 /\ output.kind = "RuleSet" => output.setvalues[k] = v
                 /\ JokersIn(ruleset, s) = 0 => v = FaceTotal(ruleset, s)

C21_Witness ==
    /\ EnumeratedNow
    /\ output.kind = "RuleSet"
    /\ Legal(ruleset)
    /\ \E k \in 1..Len(output.sets) :
          LET s == output.sets[k]
          IN /\ JokersIn(ruleset, s) = 2
             /\ Cardinality(Numbered(ruleset, s)) = 1
             /\ output.setvalues[k] > Len(s) * FaceOf(ruleset, s[1])
    /\ \E k \in 1..Len(output.sets) :
          LET s == output.sets[k]
          IN /\ JokersIn(ruleset, s) = 1
             /\ FaceOf(ruleset, s[1]) = ruleset.numbers - 1
             /\ output.setvalues[k] = 3 * ruleset.numbers - 3

\* The rows of the run-length value matrix above the first.
UpperRows(rs) == 1..(2 * rs.min_len - 2)

\* The first numbered tile of a set, and whether the set is valued as a run:
\* its first two numbered tiles differ in number.
FirstNumbered(rs, s) == s[Nth(Numbered(rs, s), 1)]
ValuedAsRun(rs, s) ==
    /\ Cardinality(Numbered(rs, s)) >= 2
    /\ FaceOf(rs, FirstNumbered(rs, s)) # FaceOf(rs, s[Nth(Numbered(rs, s), 2)])

\* The value of a set valued as a run is the entry of the matrix at the
\* length of the set and its lowest numbered face.
RunsReadFromMatrix ==
    \A k \in 1..Len(output.sets) :
        LET s == output.sets[k]
            m == FaceOf(ruleset, FirstNumbered(ruleset, s))
        IN ValuedAsRun(ruleset, s) =>
             /\ \A i \in Numbered(ruleset, s) : m <= FaceOf(ruleset, s[i])
             /\ _calc(ruleset, s) = rlvalues(ruleset, Len(s))[m]
             /\ output.kind = "RuleSet" =>
                   output.setvalues[k] = rlvalues(ruleset, Len(s))[m]

\* C22 as claimed: the first row of the matrix is the lowest number, every
\* further row adds the next number capped at numbers, min(m + l, N), and
\* the values of runs are read from the matrix.
C22_RecurrenceCappedAtNumbers ==
    EnumeratedNow =>
        /\ \A m \in 0..ruleset.numbers : rlvalues(ruleset, 1)[m] = m
        /\ \A l \in UpperRows(ruleset) : \A m \in 0..ruleset.numbers :
              rlvalues(ruleset, l + 1)[m]
                  = rlvalues(ruleset, l)[m] + Min(m + l, ruleset.numbers)
        /\ RunsReadFromMatrix

\* C22: the first row of the matrix is the lowest number, every further
\* row adds m + l while that is a number and N - l beyond (the run then
\* ends at N and grows downwards), and the values of runs are read from
\* the matrix at the length of the set and its lowest numbered face.
C22_RecurrenceGrowsDownwards ==
    EnumeratedNow =>
        /\ \A m \in 0..ruleset.numbers : rlvalues(ruleset, 1)[m] = m
        /\ \A l \in UpperRows(ruleset) : \A m \in 0..ruleset.numbers :
              rlvalues(ruleset, l + 1)[m]
                  = rlvalues(ruleset, l)[m]
                      + (IF m + l <= ruleset.numbers THEN m + l
                         ELSE ruleset.numbers - l)
        /\ RunsReadFromMatrix

C22_Witness ==
    /\ EnumeratedNow
    /\ output.kind = "RuleSet"
    /\ \E k \in 1..Len(output.sets) :
          LET s == output.sets[k]
              m == FaceOf(ruleset, FirstNumbered(ruleset, s))
          IN /\ ValuedAsRun(ruleset, s)
             /\ JokersIn(ruleset, s) > 0
             /\ m + Len(s) - 1 > ruleset.numbers
             /\ output.setvalues[k] = rlvalues(ruleset, Len(s))[m]
             /\ output.setvalues[k] < Len(s) * ruleset.numbers

\* A set of jokers only.
AllJokers(rs, s) == Numbered(rs, s) = {}

\* C23 as claimed: in a rule set within the limits every enumerated set
\* has a value, and the value is at least min_len.
C23_ValuesAtLeastMinLen ==
    (EnumeratedNow /\ Legal(ruleset)) =>
        /\ output.kind = "RuleSet"
        /\ \A k \in 1..Len(output.sets) :
              output.setvalues[k] >= ruleset.min_len

\* A rule set within the limits whose sets got no values.
C23_Witness ==
    /\ EnumeratedNow
    /\ Legal(ruleset)
    /\ output.kind = "StopIteration"
    /\ output.setvalues = <<>>
    /\ \E k \in 1..Len(output.sets) :
          /\ ~AllJokers(ruleset, output.sets[k])
          /\ JokersIn(ruleset, output.sets[k]) = 1

\* C24 as claimed: when a rule set within the limits enumerates a set of
\* jokers only, the construction completes and the value of that set is 0.
C24_AllJokerSetsValuedZero ==
    (EnumeratedNow /\ Legal(ruleset)) =>
        \A k \in 1..Len(output.sets) :
            AllJokers(ruleset, output.sets[k]) =>
                /\ output.kind = "RuleSet"
                /\ output.setvalues[k] = 0

\* A set of jokers only was enumerated with at least as many jokers as
\* the minimum length, and the construction raised StopIteration.
C24_Witness ==
    /\ EnumeratedNow
    /\ Legal(ruleset)
    /\ ruleset.jokers >= ruleset.min_len
    /\ ruleset.min_len = 2
    /\ output.kind = "StopIteration"
    /\ game = NoGame
    /\ \E k \in 1..Len(output.sets) :
          /\ AllJokers(ruleset, output.sets[k])
          /\ Len(output.sets[k]) = ruleset.min_len

----------------------------------------------------------------------------
\* Properties of the methods of GameState.

\* How often a tile list names a tile.
Named(args, t) == Cardinality({i \in 1..Len(args) : args[i] = t})

\* A counter and its array hold c copies of tile t.
Holds(counter, array, t, c) == Count(counter, t) = c /\ array[t] = c

\* C13: remove_rack and remove_table leave of every tile the copies held
\* less the copies named, and none when more are named than held; they
\* raise no error and leave the other multiset and the initial flag alone.
C13_RemovalSaturates ==
    /\ output.command = "remove_rack" =>
          /\ output.kind = "None"
          /\ \A t \in 1..tile_count(ruleset) :
                Holds(game.rack, game.rack_array, t,
                      Max(0, Count(output.before.rack, t)
                               - Named(output.args, t)))
          /\ game.table = output.before.table
          /\ game.table_array = output.before.table_array
          /\ game.initial = output.before.initial
    /\ output.command = "remove_table" =>
          /\ output.kind = "None"
          /\ \A t \in 1..tile_count(ruleset) :
                Holds(game.table, game.table_array, t,
                      Max(0, Count(output.before.table, t)
                               - Named(output.args, t)))
          /\ game.rack = output.before.rack
          /\ game.rack_array = output.before.rack_array
          /\ game.initial = output.before.initial

C13_Witness ==
    /\ output.command = "remove_rack"
    /\ Named(output.args, 1) = 3
    /\ Count(output.before.rack, 1) = 2
    /\ output.before.table # EmptyBag

\* C14: with_move called with tiles that are all on the rack returns a
\* state with the tiles taken off the rack and added to the table, and
\* leaves the state it was called on as it was.
C14_MoveTransfers ==
    (output.command = "with_move"
       /\ Counter(output.args) \sqsubseteq output.before.rack) =>
        /\ output.kind = "GameState"
        /\ \A t \in 1..tile_count(ruleset) :
              /\ Holds(output.derived.rack, output.derived.rack_array, t,
                       Count(output.before.rack, t) - Named(output.args, t))
              /\ Holds(output.derived.table, output.derived.table_array, t,
                       Count(output.before.table, t) + Named(output.args, t))
              /\ Count(output.derived.rack, t) + Count(output.derived.table, t)
                    = Count(output.before.rack, t)
                        + Count(output.before.table, t)
        /\ game = output.before

C14_Witness ==
    /\ output.command = "with_move"
    /\ output.kind = "GameState"
    /\ Len(output.args) = 1
    /\ output.before.table # EmptyBag
    /\ output.derived.rack # EmptyBag
    /\ ~output.before.initial

\* C15 as claimed: with_move called with a tile named more often than the
\* rack holds it raises no error and returns a state whose rack holds none
\* of that tile.
C15_MoveSaturates ==
    (output.command = "with_move"
       /\ ~(Counter(output.args) \sqsubseteq output.before.rack)) =>
        /\ output.kind = "GameState"
        /\ \A t \in 1..tile_count(ruleset) :
              Count(output.derived.rack, t) =
                  Max(0, Count(output.before.rack, t) - Named(output.args, t))

\* C15: with_move called with a tile named more often than the rack holds
\* it raises ValueError; no state is returned and the state it was called
\* on is as it was.
C15_MoveValidates ==
    (output.command = "with_move"
       /\ ~(Counter(output.args) \sqsubseteq output.before.rack)) =>
        /\ output.kind = "ValueError"
        /\ game = output.before

C15_Witness ==
    /\ output.command = "with_move"
    /\ output.kind = "ValueError"
    /\ Count(output.before.rack, 1) = 1
    /\ Named(output.args, 1) = 2

----------------------------------------------------------------------------
\* Properties of the calls of the solver.

\* The solutions a call that has set its parameters can return, the
\* parameters being as they are now.
Results(c) ==
    { read_solution([solver EXCEPT !.sets = p.sets, !.tiles = p.tiles],
                    p.infeasible).sol :
        p \in prob_solve(ruleset, calls[c].mode, solver) }

\* The solutions the call would return on a solver just built.
Fresh(c) == Solver(ruleset, calls[c].mode, calls[c].state)

\* C16: whatever calls came before, a call of the solver can return
\* exactly the solutions it can return on a solver just built, when the
\* calls are serialized.
C16_CallsIndependent ==
    \A c \in Callers :
        /\ calls[c].pc = "bound" => Results(c) = Fresh(c)
        /\ calls[c].pc = "done" =>
              /\ calls[c].returned.kind = "SolverSolution"
              /\ calls[c].returned.sol \in Fresh(c)

C16_Witness ==
    /\ calls[1].pc = "done"
    /\ calls[1].mode = "tiles"
    /\ calls[1].state.table # EmptyBag
    /\ calls[2].pc = "bound"
    /\ calls[2].mode = "initial"
    /\ solver.tiles # Unset
    /\ Results(2) # Solver(ruleset, "tiles", calls[2].state)

\* C17: a call returns something else than a solution of its own state
\* only when a step of another call came between the setting of its
\* parameters and the reading of its solution.
C17_WrongOnlyWhenInterleaved ==
    \A c \in Callers :
        (calls[c].pc = "done"
           /\ (\/ calls[c].returned.kind # "SolverSolution"
               \/ calls[c].returned.sol \notin Fresh(c))) =>
            calls[c].interfered

C17_Witness ==
    \E c \in Callers :
        /\ calls[c].pc = "done"
        /\ calls[c].returned.kind = "SolverSolution"
        /\ calls[c].returned.sol.tiles # <<>>
        /\ ~(Counter(calls[c].returned.sol.tiles) \sqsubseteq calls[c].state.rack)

\* The counts of the tiles and of the sets of a returned solution.
PlacedTiles(rs, sol) ==
    [t \in 1..tile_count(rs) |->
        Cardinality({i \in 1..Len(sol.tiles) : sol.tiles[i] = t})]
UsedSets(rs, sol) ==
    [k \in 1..Len(sets[rs]) |->
        Cardinality({i \in 1..Len(sol.set_indices) : sol.set_indices[i] = k - 1})]

\* The opening placements of a rack: tiles of the rack and sets, each used
\* no more often than there are repeats, that hold exactly these tiles
\* and are worth the minimum initial value together. Nothing of the table
\* is in them.
Openings(rs, rack_array) ==
    UNION { { <<x, y>> : x \in { z \in Covers(rs, y) :
                                    /\ \A k \in 1..Len(z) : z[k] <= rs.repeats
                                    /\ Dot(z, setvalues[rs])
                                          >= rs.min_initial_value } } :
            y \in VectorsUpTo(rack_array, tile_count(rs)) }

NumberedPlaced(rs, y) == SumOver(y, 1..(rs.numbers * rs.colours))
JokersPlaced(rs, y) == IF rs.jokers = 0 THEN 0 ELSE y[tile_count(rs)]

\* A call in initial mode has returned.
OpeningReturned(c) ==
    /\ calls[c].pc = "done"
    /\ calls[c].mode = "initial"
    /\ calls[c].returned.kind = "SolverSolution"

\* In initial mode the table parameter is zeros, and what is returned is
\* an opening placement of the rack with the most numbered tiles, or
\* nothing when the rack has no opening placement.
OpeningIsBest(c) ==
    LET sol == calls[c].returned.sol
        y == PlacedTiles(ruleset, sol)
        open == Openings(ruleset, calls[c].state.rack_array)
    IN /\ (calls[c].pc \in {"bound", "solved"} /\ calls[c].mode = "initial") =>
             \A t \in 1..tile_count(ruleset) : solver.table[t] = 0
       /\ OpeningReturned(c) =>
             IF sol.tiles = <<>> THEN open = {}
             ELSE /\ <<UsedSets(ruleset, sol), y>> \in open
                  /\ \A q \in open : NumberedPlaced(ruleset, q[2])
                                         <= NumberedPlaced(ruleset, y)

\* Another opening placement has as many numbered tiles and fewer jokers.
SparesJoker(c) ==
    LET y == PlacedTiles(ruleset, calls[c].returned.sol)
    IN \E q \in Openings(ruleset, calls[c].state.rack_array) :
          /\ NumberedPlaced(ruleset, q[2]) = NumberedPlaced(ruleset, y)
          /\ JokersPlaced(ruleset, q[2]) < JokersPlaced(ruleset, y)

\* C25 as claimed: in initial mode the table is ignored, the returned
\* placement has the most numbered tiles among the opening placements of
\* the rack, and no opening placement with as many numbered tiles has
\* fewer jokers.
C25_OpeningKeepsJokers ==
    \A c \in Callers :
        /\ OpeningIsBest(c)
        /\ OpeningReturned(c) => ~SparesJoker(c)

\* C25: in initial mode the table is ignored and the returned placement
\* has the most numbered tiles among the opening placements of the rack;
\* it may hold jokers that another such placement spares.
C25_OpeningMaximisesNumbered ==
    \A c \in Callers : OpeningIsBest(c)

C25_Witness ==
    \E c \in Callers :
        /\ OpeningReturned(c)
        /\ calls[c].state.table # EmptyBag
        /\ NumberedPlaced(ruleset, PlacedTiles(ruleset, calls[c].returned.sol)) = 3
        /\ SparesJoker(c)

----------------------------------------------------------------------------
\* Properties of the two views of a GameState.

\* A counter and its array agree: the array holds the count of every
\* tile, no count is negative and the counter has no entry of count zero.
Agree(counter, array, tc) ==
    /\ Len(array) = tc
    /\ \A t \in 1..tc : array[t] = Count(counter, t) /\ array[t] >= 0
    /\ \A t \in DOMAIN counter : t \in 1..tc /\ counter[t] > 0

\* C26: after any sequence of add_rack, remove_rack, add_table,
\* remove_table and reset the rack and the table agree with their arrays.
C26_ViewsAgree ==
    /\ Agree(game.rack, game.rack_array, game._tile_count)
    /\ Agree(game.table, game.table_array, game._tile_count)

C26_Witness ==
    /\ output.command = "remove_table"
    /\ output.short
    /\ Count(game.table, 1) = 1
    /\ Count(game.table, 2) = 0
    /\ Count(game.rack, 2) = MaxCount

----------------------------------------------------------------------------
\* Properties of the tiles of the console's game.

\* The copies of a tile in the game, and how many the rule set has.
Copies(g, t) == Count(g.rack, t) + Count(g.table, t)
Supply(rs, t) == IF t = joker(rs) THEN rs.jokers ELSE rs.repeats

WithinSupply ==
    \A t \in 1..tile_count(ruleset) : Copies(game, t) <= Supply(ruleset, t)

\* A step of place, of remove or of a solve the user accepts.
MovesTiles == do_place \/ do_remove \/ (do_solve_confirm /\ output'.accepted)

\* C28: in the console no tile is in the game more often than the rule
\* set has it, R times a numbered tile and J times the joker, and place,
\* remove and an accepted solve leave the copies of every tile as many as
\* they were.
C28_TileSupplyKept ==
    /\ []WithinSupply
    /\ [][MovesTiles =>
            \A t \in 1..tile_count(ruleset) : Copies(game', t) = Copies(game, t)]_vars

C28_Witness ==
    /\ pc = "postcmd"
    /\ output.command = "solve"
    /\ output.accepted
    /\ Copies(game, joker(ruleset)) = ruleset.jokers
    /\ Count(game.table, joker(ruleset)) > 0
    /\ Copies(game, 1) = ruleset.repeats
    /\ game.table # output.state.table

----------------------------------------------------------------------------
\* Properties of the games of the console.

\* The names of the games of a shelf, in the order of the shelf.
GameNames(sh) ==
    SelectSeq([i \in 1..Len(sh) |-> sh[i].key],
              LAMBDA k : getitem(sh, k).type = "GameState")

\* A command on the games has run.
GamesCommand == output.command \in {"name", "newgame", "delete", "switch"}

\* C29 as claimed: after every command on the games the current game is
\* found and is a GameState, no command raises, and newgame leaves every
\* entry there was as it was.
C29_CurrentGameStored ==
    (pc \in {"games", "crashed"}) =>
        /\ pc = "games"
        /\ stored_game(_shelve).kind = "value"
        /\ stored_game(_shelve).value.type = "GameState"
        /\ (GamesCommand /\ output.command = "newgame") =>
              \A i \in 1..Len(output.before) :
                  output.before[i].key # CURRENT =>
                      /\ contains(_shelve, output.before[i].key)
                      /\ getitem(_shelve, output.before[i].key)
                            = output.before[i].value

\* switch was given the key of the current game: the key now names
\* itself, its entry is a string, and the command raised.
C29_Witness ==
    /\ pc = "crashed"
    /\ output.command = "switch"
    /\ output.arg = CURRENT
    /\ output.kind = "AttributeError"
    /\ current_game(_shelve) = Value(CURRENT)
    /\ stored_game(_shelve).value.type = "str"

\* The shelf a delete leaves according to the claim: without the game;
\* when that was the current game, the next of the games there were is
\* the current one, and when it was the only game a new game named
\* default is.
DeletedAsClaimed(rs, before, target, current) ==
    LET remaining == delitem(before, target)
        games == GameNames(before)
        next == games[((index(games, target) + 1) % Len(games)) + 1]
    IN IF target # current THEN remaining
       ELSE IF Len(games) > 1
       THEN setitem(remaining, CURRENT, NameEntry(next))
       ELSE setitem(setitem(remaining, DEFAULT_NAME, GameEntry(new_game(rs))),
                    CURRENT, NameEntry(DEFAULT_NAME))

\* A delete has run.
DeleteRan == pc \in {"games", "crashed"} /\ output.command = "delete"

\* The delete that ran did what the claim says of it.
DeleteAsClaimed ==
    LET before == output.before
        current == current_game(before)
        target == IF output.arg = "" THEN current.value ELSE output.arg
        known == index(GameNames(before), target) < Len(GameNames(before))
    IN /\ current.kind = "value"
       /\ output.kind = "None"
       /\ _shelve = IF known /\ output.confirm
                    THEN DeletedAsClaimed(ruleset, before, target, current.value)
                    ELSE before

\* C30 as claimed: a delete of an unknown name or one that is declined
\* changes nothing; a confirmed delete of a game removes it, switches to
\* the next game when it was the current one, creates the game default
\* when it was the only one, and leaves the rest as it was.
C30_DeleteSwitchesToNext == DeleteRan => DeleteAsClaimed

\* A confirmed delete of the current game, whose name is not listed,
\* raised ValueError and removed nothing.
C30_Witness ==
    /\ pc = "crashed"
    /\ output.command = "delete"
    /\ output.confirm
    /\ output.kind = "ValueError"
    /\ getitem(output.before, CURRENT).name = "_b"
    /\ _shelve = output.before
    /\ contains(_shelve, "_b")

\* The names of all games of the shelf before the command are listed.
AllListed == GameNames(output.before) = listed(output.before)

====
